---- MODULE Spec2Model ----
(***************************************************************************)
(* vue-inheritance-loader (src/src/index.js): the webpack loader that      *)
(* merges a single-file component with the base component its template     *)
(* extends.  The model covers the loader entry, getMergedCode (the         *)
(* exported resolve), the recursive resolveComponent with its promises and *)
(* file reads, the tree merge, the serializers and the path/alias          *)
(* resolution.                                                             *)
(*                                                                         *)
(* Strings whose characters matter (paths, references, alias keys) are     *)
(* sequences of one-character strings.  Markup is a sequence of tokens     *)
(* (open tag, close tag, text); parseDOM builds a forest from it and       *)
(* getOuterHTML flattens a forest back.                                    *)
(***************************************************************************)
EXTENDS Integers, Sequences, FiniteSets, TLC

VARIABLES
    options,    \* the module-level `let options` (line 19)
    started,    \* per loader invocation: has loader() been called
    cfg,        \* per invocation: the options it was called with (history)
    input,      \* per invocation: the source handed to the loader
    frames,     \* per invocation: the resolveComponent calls, outermost first
    gm,         \* per invocation: the promise getMergedCode returned
    cb,         \* per invocation: what the loader callback received
    deps,       \* per invocation: the addDependency calls, in order
    reads,      \* per invocation: the fs.readFile calls issued, in order
    raised,     \* per invocation: the errors thrown or passed to reject, in order
    jobs,       \* the promise-reaction (microtask) queue
    aRef,       \* alias check: the extends reference
    aDir,       \* alias check: the current directory
    aAliases,   \* alias check: the alias table
    aOut        \* alias check: the resolved path, or NoPath before the call

vars == <<options, started, cfg, input, frames, gm, cb, deps, reads, raised,
          jobs, aRef, aDir, aAliases, aOut>>

mainVars == <<options, started, cfg, input, frames, gm, cb, deps, reads,
              raised, jobs>>

aliasVars == <<aRef, aDir, aAliases, aOut>>

(***************************************************************************)
(* Bounds                                                                  *)
(***************************************************************************)
\* longest extends reference drawn for the alias check, in characters
MaxRefLen == 4

\* longest ancestor chain the file system holds below the loaded component
MaxChain == 2

(***************************************************************************)
(* Character strings                                                       *)
(***************************************************************************)
Str1(a) == <<a>>

Slash == <<"/">>

Dot == <<".">>

DotDot == <<".", ".">>

\* the value vue-template-compiler stores for an attribute written without
\* a value: the boolean true, not a string
TrueValue == <<"#true">>

\* what blockToHTML's template literal prints for the boolean true
TrueText == <<"t", "r", "u", "e">>

RECURSIVE JoinWith(_, _)
JoinWith(parts, sep) ==
    IF parts = <<>> THEN <<>>
    ELSE IF Len(parts) = 1 THEN parts[1]
    ELSE parts[1] \o sep \o JoinWith(Tail(parts), sep)

RECURSIVE SplitFrom(_, _, _, _)
SplitFrom(s, i, cur, seps) ==
    IF i > Len(s) THEN <<cur>>
    ELSE IF s[i] \in seps THEN <<cur>> \o SplitFrom(s, i + 1, <<>>, seps)
    ELSE SplitFrom(s, i + 1, Append(cur, s[i]), seps)

\* baseRelPath.split(/[\/\\]/)
SplitRef(s) == SplitFrom(s, 1, <<>>, {"/", "\\"})

\* the first index at which k occurs in s, 0 when it does not: what
\* new RegExp(k) finds for a key without regular-expression metacharacters
IndexOf(s, k) ==
    LET hits == {i \in 1..(Len(s) - Len(k) + 1) : SubSeq(s, i, i + Len(k) - 1) = k}
    IN  IF hits = {} THEN 0 ELSE CHOOSE i \in hits : \A j \in hits : i <= j

\* new RegExp(k).test(s)
RegexTest(k, s) == IndexOf(s, k) > 0

\* s.replace(new RegExp(k), t): the first occurrence only
RegexReplace(s, k, t) ==
    LET i == IndexOf(s, k)
    IN  IF i = 0 THEN s
        ELSE SubSeq(s, 1, i - 1) \o t \o SubSeq(s, i + Len(k), Len(s))

(***************************************************************************)
(* node's path module, posix flavour                                       *)
(***************************************************************************)
RECURSIVE NormalizeParts(_, _, _)
NormalizeParts(parts, acc, allowAboveRoot) ==
    IF parts = <<>> THEN acc
    ELSE LET p == Head(parts)
             rest == Tail(parts)
         IN  IF p = <<>> \/ p = Dot
                 THEN NormalizeParts(rest, acc, allowAboveRoot)
             ELSE IF p = DotDot
                 THEN IF acc # <<>> /\ acc[Len(acc)] # DotDot
                          THEN NormalizeParts(rest, SubSeq(acc, 1, Len(acc) - 1), allowAboveRoot)
                      ELSE IF allowAboveRoot
                          THEN NormalizeParts(rest, Append(acc, DotDot), allowAboveRoot)
                      ELSE NormalizeParts(rest, acc, allowAboveRoot)
             ELSE NormalizeParts(rest, Append(acc, p), allowAboveRoot)

\* path.normalize
Normalize(p) ==
    IF p = <<>> THEN Dot
    ELSE LET isAbs == p[1] = "/"
             trailing == p[Len(p)] = "/"
             body == JoinWith(NormalizeParts(SplitFrom(p, 1, <<>>, {"/"}), <<>>, ~isAbs), Slash)
             body2 == IF body = <<>> /\ ~isAbs THEN Dot ELSE body
             body3 == IF body2 # <<>> /\ trailing THEN body2 \o Slash ELSE body2
         IN  IF isAbs THEN Slash \o body3 ELSE body3

\* path.join(a, b)
PathJoin(a, b) ==
    LET joined == IF a = <<>> THEN b
                  ELSE IF b = <<>> THEN a
                  ELSE a \o Slash \o b
    IN  Normalize(joined)

RECURSIVE StripTrailingSlashes(_)
StripTrailingSlashes(p) ==
    IF Len(p) > 1 /\ p[Len(p)] = "/"
        THEN StripTrailingSlashes(SubSeq(p, 1, Len(p) - 1))
    ELSE p

\* path.dirname
Dirname(p) ==
    IF p = <<>> THEN Dot
    ELSE LET q == StripTrailingSlashes(p)
             idx == {i \in 2..Len(q) : q[i] = "/"}
         IN  IF idx = {}
                 THEN IF q[1] = "/" THEN Slash ELSE Dot
             ELSE LET e == CHOOSE i \in idx : \A j \in idx : j <= i
                  IN  SubSeq(q, 1, e - 1)

(***************************************************************************)
(* Alias tables: the entries of the aliases object in key order            *)
(***************************************************************************)
\* the flag key vue-inheritance-loader-jest inserts; it is one pseudo
\* character that no reference of the model contains
SentinelKey == <<"__fromJest">>

Alias(k, t) == [key |-> k, target |-> t]

NoAlias == Alias(<<>>, <<>>)

\* aliases['__fromJest']
FromJest(aliases) ==
    \E i \in 1..Len(aliases) : aliases[i].key = SentinelKey

FirstIndex(hits) ==
    IF hits = {} THEN 0 ELSE CHOOSE i \in hits : \A j \in hits : i <= j

\* a mistaken match: the key equals any segment of the reference
AnySegment(baseRelPath, aliases) ==
    LET parts == SplitRef(baseRelPath)
        i == FirstIndex({j \in 1..Len(aliases) :
                            \E n \in 1..Len(parts) : parts[n] = aliases[j].key})
    IN  IF i = 0 THEN NoAlias ELSE aliases[i]

\* line 90: Object.keys(aliases).find(k => baseRelPathParts[0] === k)
FirstSegmentOnly(baseRelPath, aliases) ==
    LET i == FirstIndex({j \in 1..Len(aliases) : SplitRef(baseRelPath)[1] = aliases[j].key})
    IN  IF i = 0 THEN NoAlias ELSE aliases[i]

\* lines 85-88: Object.keys(aliases).find(k => new RegExp(k).test(baseRelPath))
AnywhereInReference(baseRelPath, aliases) ==
    LET i == FirstIndex({j \in 1..Len(aliases) : RegexTest(aliases[j].key, baseRelPath)})
    IN  IF i = 0 THEN NoAlias ELSE aliases[i]

\* lines 84-91
MatchingAlias(baseRelPath, aliases) ==
    IF FromJest(aliases)
        THEN AnywhereInReference(baseRelPath, aliases)
    ELSE FirstSegmentOnly(baseRelPath, aliases)

\* lines 93-103: matchingAlias is tested for truthiness, and the empty
\* string is falsy
ResolveBasePath(baseRelPath, currPath, aliases) ==
    LET m == MatchingAlias(baseRelPath, aliases)
    IN  IF m.key # <<>>
            THEN IF FromJest(aliases)
                     THEN RegexReplace(baseRelPath, m.key, m.target)
                 ELSE PathJoin(m.target, JoinWith(Tail(SplitRef(baseRelPath)), Slash))
        ELSE PathJoin(currPath, baseRelPath)

(***************************************************************************)
(* Options (lines 10-19)                                                   *)
(***************************************************************************)
OptionKeys ==
    {"EXT_POINT_TAG", "EXTENSIONS_TAG", "EXTENSION_TAG", "EXT_POINT_NAME_ATTR",
     "EXT_POINT_REF_ATTR", "EXTENDABLE_ATTR", "EXTENDS_ATTR"}

defaultOptions ==
    [EXT_POINT_TAG |-> "extension-point",
     EXTENSIONS_TAG |-> "extensions",
     EXTENSION_TAG |-> "extension",
     EXT_POINT_NAME_ATTR |-> "name",
     EXT_POINT_REF_ATTR |-> "point",
     EXTENDABLE_ATTR |-> "extendable",
     EXTENDS_ATTR |-> "extends"]

\* line 22: {...defaultOptions, ...getOptions(this)}
MergeOptions(defaults, given) ==
    [k \in OptionKeys |-> IF k \in DOMAIN given THEN given[k] ELSE defaults[k]]

\* the loader options a webpack rule may carry: none, or a renamed vocabulary
NoOverrides == [k \in {} |-> ""]

RenamedOverrides ==
    [EXT_POINT_TAG |-> "slot-point", EXTENSION_TAG |-> "fill",
     EXT_POINT_NAME_ATTR |-> "id", EXTENDS_ATTR |-> "inherits"]

LoaderOptionSets == {NoOverrides, RenamedOverrides}

(***************************************************************************)
(* Attributes: the entries of an attribute object, in insertion order      *)
(***************************************************************************)
Attr(k, v) == [key |-> k, value |-> v]

\* what reading a missing property gives
Undefined == <<"#undefined">>

HasAttr(attrs, k) == \E i \in 1..Len(attrs) : attrs[i].key = k

\* attrs[k]
GetAttr(attrs, k) ==
    IF HasAttr(attrs, k)
        THEN attrs[CHOOSE i \in 1..Len(attrs) : attrs[i].key = k].value
    ELSE Undefined

RECURSIVE DeleteAttr(_, _)
\* delete attrs[k]
DeleteAttr(attrs, k) ==
    IF attrs = <<>> THEN <<>>
    ELSE IF Head(attrs).key = k THEN DeleteAttr(Tail(attrs), k)
    ELSE <<Head(attrs)>> \o DeleteAttr(Tail(attrs), k)

\* a value used as a condition
Truthy(v) == v # Undefined /\ v # <<>>

(***************************************************************************)
(* Markup: tokens, and the node forest htmlparser2 builds from them        *)
(***************************************************************************)
OpenTok(name, attribs) == [k |-> "open", name |-> name, attribs |-> attribs, data |-> <<>>]

CloseTok(name) == [k |-> "close", name |-> name, attribs |-> <<>>, data |-> <<>>]

TextTok(data) == [k |-> "text", name |-> "", attribs |-> <<>>, data |-> data]

Elem(name, attribs, children) ==
    [type |-> "tag", name |-> name, attribs |-> attribs, children |-> children, data |-> <<>>]

TextNode(data) ==
    [type |-> "text", name |-> "", attribs |-> <<>>, children |-> <<>>, data |-> data]

RECURSIVE ParseFrom(_, _)
\* the siblings that start at token i, up to the close tag of their parent
ParseFrom(toks, i) ==
    IF i > Len(toks) THEN [nodes |-> <<>>, next |-> i]
    ELSE LET t == toks[i]
         IN  IF t.k = "close" THEN [nodes |-> <<>>, next |-> i]
             ELSE IF t.k = "text"
                 THEN LET r == ParseFrom(toks, i + 1)
                      IN  [nodes |-> <<TextNode(t.data)>> \o r.nodes, next |-> r.next]
             ELSE LET inner == ParseFrom(toks, i + 1)
                      after == ParseFrom(toks, inner.next + 1)
                  IN  [nodes |-> <<Elem(t.name, t.attribs, inner.nodes)>> \o after.nodes,
                       next |-> after.next]

\* lines 168-172
parseDOM(source) == ParseFrom(source, 1).nodes

RECURSIVE getOuterHTML(_)
\* htmlparser.DomUtils.getOuterHTML
getOuterHTML(nodes) ==
    IF nodes = <<>> THEN <<>>
    ELSE LET n == Head(nodes)
         IN  (IF n.type = "text" THEN <<TextTok(n.data)>>
              ELSE <<OpenTok(n.name, n.attribs)>> \o getOuterHTML(n.children)
                       \o <<CloseTok(n.name)>>)
             \o getOuterHTML(Tail(nodes))

RECURSIVE FindAllFrom(_, _, _, _)
\* the paths (child indexes from the root) of the elements named tag, in
\* document order
FindAllFrom(nodes, i, prefix, tag) ==
    IF i > Len(nodes) THEN <<>>
    ELSE LET n == nodes[i]
             p == Append(prefix, i)
         IN  (IF n.type = "tag"
                  THEN (IF n.name = tag THEN <<p>> ELSE <<>>)
                           \o FindAllFrom(n.children, 1, p, tag)
              ELSE <<>>)
             \o FindAllFrom(nodes, i + 1, prefix, tag)

\* lines 186-188
findDomElementsByTagName(dom, tag) == FindAllFrom(dom, 1, <<>>, tag)

RECURSIVE NodeAt(_, _)
NodeAt(nodes, path) ==
    IF Len(path) = 1 THEN nodes[path[1]]
    ELSE NodeAt(nodes[path[1]].children, Tail(path))

RECURSIVE HasNodeAt(_, _)
HasNodeAt(nodes, path) ==
    /\ path # <<>>
    /\ path[1] \in 1..Len(nodes)
    /\ \/ Len(path) = 1
       \/ HasNodeAt(nodes[path[1]].children, Tail(path))

RECURSIVE ReplaceAt(_, _, _)
ReplaceAt(nodes, path, n) ==
    IF Len(path) = 1 THEN [nodes EXCEPT ![path[1]] = n]
    ELSE [nodes EXCEPT ![path[1]].children = ReplaceAt(@, Tail(path), n)]

IsPrefix(p, q) == Len(p) <= Len(q) /\ SubSeq(q, 1, Len(p)) = p

IsProperPrefix(p, q) == Len(p) < Len(q) /\ IsPrefix(p, q)

(***************************************************************************)
(* Component sources and the descriptors the SFC parser splits them into   *)
(***************************************************************************)
Block(type, attrs, content) == [type |-> type, attrs |-> attrs, content |-> content]

\* an absent section (descriptor.template === null, descriptor.script === null)
NoBlock == Block("", <<>>, <<>>)

\* the text of a component: its sections as written, the text left between
\* them, and whether the file is one the SFC parser fails on
Source(fmt, template, script, styles, customBlocks, stray, malformed) ==
    [fmt |-> fmt, template |-> template, script |-> script, styles |-> styles,
     customBlocks |-> customBlocks, stray |-> stray, malformed |-> malformed]

\* `contents` after a failed read, and the `source` of a pending promise
UndefinedSource == Source("undefined", NoBlock, NoBlock, <<>>, <<>>, <<>>, FALSE)

Descriptor(template, script, styles, customBlocks) ==
    [template |-> template, script |-> script, styles |-> styles,
     customBlocks |-> customBlocks]

EmptyDescriptor == Descriptor(NoBlock, NoBlock, <<>>, <<>>)

\* one of the "//" lines the SFC parser puts in front of a script block that
\* does not start on the first line of its file
PadLine == TextTok(<<"//">>)

\* an attribute written without a value is stored as the boolean true
ParsedAttrs(attrs) ==
    [i \in 1..Len(attrs) |->
        Attr(attrs[i].key, IF attrs[i].value = <<>> THEN TrueValue ELSE attrs[i].value)]

ParsedBlock(b) ==
    IF b = NoBlock THEN NoBlock ELSE Block(b.type, ParsedAttrs(b.attrs), b.content)

ParsedBlocks(bs) == [i \in 1..Len(bs) |-> ParsedBlock(bs[i])]

PaddedScript(b, padded) ==
    IF b = NoBlock THEN NoBlock
    ELSE Block(b.type, ParsedAttrs(b.attrs),
               IF padded THEN <<PadLine>> \o b.content ELSE b.content)

\* the descriptor of a source the parser accepts
Split(source) ==
    Descriptor(ParsedBlock(source.template),
               PaddedScript(source.script, source.template # NoBlock),
               ParsedBlocks(source.styles),
               ParsedBlocks(source.customBlocks))

Parsed(desc) == [ok |-> TRUE, desc |-> desc]

ParseFailure == [ok |-> FALSE, desc |-> EmptyDescriptor]

\* lines 178-184: what toDescriptor may do with a source.  A file is
\* malformed or not; text the loader generated may turn out either way; and
\* for undefined (the contents of a failed read) the parser either throws or
\* finds no section.
toDescriptor(source) ==
    IF source.fmt = "undefined" THEN {ParseFailure, Parsed(EmptyDescriptor)}
    ELSE IF source.fmt = "gen" THEN {ParseFailure, Parsed(Split(source))}
    ELSE IF source.malformed THEN {ParseFailure}
    ELSE {Parsed(Split(source))}

RECURSIVE StripPad(_)
\* line 48: content.replace(/^(\/\/\n)+/, '')
StripPad(content) ==
    IF content # <<>> /\ Head(content) = PadLine THEN StripPad(Tail(content))
    ELSE content

\* line 208: a value printed between double quotes
PrintedAttrs(attrs) ==
    [i \in 1..Len(attrs) |->
        Attr(attrs[i].key, IF attrs[i].value = TrueValue THEN TrueText ELSE attrs[i].value)]

\* lines 206-212; the caller sees undefined for an absent block
blockToHTML(block) ==
    IF block = NoBlock THEN NoBlock
    ELSE Block(block.type, PrintedAttrs(block.attrs), block.content)

RECURSIVE BlocksToHTML(_)
BlocksToHTML(blocks) ==
    IF blocks = <<>> THEN <<>>
    ELSE <<blockToHTML(Head(blocks))>> \o BlocksToHTML(Tail(blocks))

RECURSIVE WithoutType(_, _)
WithoutType(blocks, type) ==
    IF blocks = <<>> THEN <<>>
    ELSE IF Head(blocks).type = type THEN WithoutType(Tail(blocks), type)
    ELSE <<Head(blocks)>> \o WithoutType(Tail(blocks), type)

\* lines 195-204: the text after the template; an absent script is
\* concatenated as the word "undefined"
descriptorToHTML(descriptor, opts) ==
    [customBlocks |-> BlocksToHTML(WithoutType(descriptor.customBlocks, opts.EXTENSION_TAG)),
     script |-> blockToHTML(descriptor.script),
     styles |-> BlocksToHTML(descriptor.styles),
     stray |-> IF descriptor.script = NoBlock THEN <<"undefined">> ELSE <<>>]

\* the template literal of lines 142-145 and 58-61
Generated(templateAttrs, dom, rest) ==
    Source("gen", Block("template", templateAttrs, getOuterHTML(dom)),
           rest.script, rest.styles, rest.customBlocks, rest.stray, FALSE)

(***************************************************************************)
(* Errors and promises                                                     *)
(***************************************************************************)
Error(kind, path) == [kind |-> kind, path |-> path]

NoError == Error("", <<>>)

ParseError == Error("ParseError", <<>>)

TypeError == Error("TypeError", <<>>)

IOError(path) == Error("IOError", path)

Pending == [st |-> "pending", source |-> UndefinedSource, ancestorsPaths |-> <<>>, err |-> NoError]

Resolved(source, ancestorsPaths) ==
    [st |-> "resolved", source |-> source, ancestorsPaths |-> ancestorsPaths, err |-> NoError]

Rejected(err) ==
    [st |-> "rejected", source |-> UndefinedSource, ancestorsPaths |-> <<>>, err |-> err]

\* a mistaken promise: settling again replaces the outcome
SettleAgain(p, outcome) == outcome

\* resolve(v) and reject(e) act on a pending promise only
Settle(p, outcome) == IF p.st = "pending" THEN outcome ELSE p

(***************************************************************************)
(* resolveComponent: the synchronous start of a call (lines 72-103, 155-161)*)
(***************************************************************************)
Frame(currentSource, currPath, currentDesc, baseAbsPath, reading, p) ==
    [currentSource |-> currentSource, currPath |-> currPath,
     currentDesc |-> currentDesc, baseAbsPath |-> baseAbsPath,
     reading |-> reading, p |-> p]

\* line 78
Extends(currentDesc, opts) ==
    /\ currentDesc.template # NoBlock
    /\ Truthy(GetAttr(currentDesc.template.attrs, opts.EXTENDS_ATTR))

\* line 156
BaseCase(currentSource) == Resolved(currentSource, <<>>)

\* parse is the outcome of toDescriptor(currentSource).  A valueless extends
\* attribute is the boolean true, and true.split throws.
StartResolve(currentSource, currPath, aliases, parse, opts) ==
    IF ~parse.ok
        THEN Frame(currentSource, currPath, EmptyDescriptor, <<>>, FALSE, Rejected(ParseError))
    ELSE IF Extends(parse.desc, opts)
        THEN LET baseRelPath == GetAttr(parse.desc.template.attrs, opts.EXTENDS_ATTR)
             IN  IF baseRelPath = TrueValue
                     THEN Frame(currentSource, currPath, parse.desc, <<>>, FALSE,
                                Rejected(TypeError))
                 ELSE Frame(currentSource, currPath, parse.desc,
                            ResolveBasePath(baseRelPath, currPath, aliases), TRUE, Pending)
    ELSE Frame(currentSource, currPath, parse.desc, <<>>, FALSE, BaseCase(currentSource))

(***************************************************************************)
(* resolveComponent: the merge once the base has resolved (lines 112-150)  *)
(***************************************************************************)
RECURSIVE SelectNamed(_, _)
SelectNamed(nodes, name) ==
    IF nodes = <<>> THEN <<>>
    ELSE IF Head(nodes).name = name THEN <<Head(nodes)>> \o SelectNamed(Tail(nodes), name)
    ELSE SelectNamed(Tail(nodes), name)

\* line 122: currentDom.find(...) looks at the top-level nodes only.  The
\* callback assigns node.type where it means to compare it; the assigned
\* nodes are never serialized, so the assignment is not carried.
ExtensionsContainer(currentDom, opts) ==
    FirstIndex({i \in 1..Len(currentDom) : currentDom[i].name = opts.EXTENSIONS_TAG})

\* lines 122-123
Extensions(currentDom, opts) ==
    SelectNamed(currentDom[ExtensionsContainer(currentDom, opts)].children,
                opts.EXTENSION_TAG)

\* the block a mistaken find would return: the last match
LastExtendBlock(extensions, extPoint, opts) ==
    LET hits == {i \in 1..Len(extensions) :
                    GetAttr(extensions[i].attribs, opts.EXT_POINT_REF_ATTR)
                        = GetAttr(extPoint.attribs, opts.EXT_POINT_NAME_ATTR)}
    IN  IF hits = {} THEN 0 ELSE CHOOSE i \in hits : \A j \in hits : j <= i

\* line 128: extensions.find(...), 0 when there is none
ExtendBlock(extensions, extPoint, opts) ==
    FirstIndex({i \in 1..Len(extensions) :
                   GetAttr(extensions[i].attribs, opts.EXT_POINT_REF_ATTR)
                       = GetAttr(extPoint.attribs, opts.EXT_POINT_NAME_ATTR)})

\* lines 132-136
Filled(extPoint, extendBlock, opts) ==
    Elem("template", DeleteAttr(extPoint.attribs, opts.EXT_POINT_NAME_ATTR),
         extendBlock.children)

RECURSIVE FillPoints(_, _, _, _, _)
\* lines 126-138.  points are the extension points found before the loop,
\* in document order; done holds the ones filled so far.  A point inside a
\* filled one is no longer part of the tree, and what the loop does to it
\* does not show.
FillPoints(dom, points, extensions, opts, done) ==
    IF points = <<>> THEN dom
    ELSE LET path == Head(points)
         IN  IF \E f \in done : IsProperPrefix(f, path)
                 THEN FillPoints(dom, Tail(points), extensions, opts, done)
             ELSE LET extPoint == NodeAt(dom, path)
                      b == ExtendBlock(extensions, extPoint, opts)
                  IN  IF b = 0
                          THEN FillPoints(dom, Tail(points), extensions, opts, done)
                      ELSE FillPoints(ReplaceAt(dom, path, Filled(extPoint, extensions[b], opts)),
                                      Tail(points), extensions, opts, done \cup {path})

MergeTrees(baseDom, currentDom, opts) ==
    FillPoints(baseDom, findDomElementsByTagName(baseDom, opts.EXT_POINT_TAG),
               Extensions(currentDom, opts), opts, {})

\* a mistaken push: the nearest ancestor first
UnshiftAncestor(ancestorsPaths, baseAbsPath) == <<baseAbsPath>> \o ancestorsPaths

\* line 114
PushAncestor(ancestorsPaths, baseAbsPath) == Append(ancestorsPaths, baseAbsPath)

\* a mistaken template literal: the base component's sections
MergedSourceOfBase(baseDom, currentDesc, baseDescriptor, opts) ==
    Generated(<<Attr(opts.EXTENDABLE_ATTR, <<>>)>>, baseDom,
              descriptorToHTML(baseDescriptor, opts))

\* lines 142-145
MergedSource(baseDom, currentDesc, baseDescriptor, opts) ==
    Generated(<<Attr(opts.EXTENDABLE_ATTR, <<>>)>>, baseDom,
              descriptorToHTML(currentDesc, opts))

\* lines 112-150: what the frame's promise is settled with.  base is the
\* value the base's promise resolved with, parse the outcome of
\* toDescriptor(base.source).
Merge(frame, base, parse, opts) ==
    LET ancestorsPaths == PushAncestor(base.ancestorsPaths, frame.baseAbsPath)
    IN  IF ~parse.ok THEN Rejected(ParseError)
        ELSE IF parse.desc.template = NoBlock THEN Rejected(TypeError)
        ELSE LET baseDom == parseDOM(parse.desc.template.content)
                 currentDom == parseDOM(frame.currentDesc.template.content)
             IN  IF ExtensionsContainer(currentDom, opts) = 0 THEN Rejected(TypeError)
                 ELSE Resolved(MergedSource(MergeTrees(baseDom, currentDom, opts),
                                            frame.currentDesc, parse.desc, opts),
                               ancestorsPaths)

(***************************************************************************)
(* getMergedCode: the finalization (lines 43-64)                           *)
(***************************************************************************)
\* lines 55-56
Retagged(ext, opts) ==
    [ext EXCEPT !.name = "template",
                !.attribs = DeleteAttr(ext.attribs, opts.EXT_POINT_NAME_ATTR)]

RECURSIVE RetagAll(_, _, _)
\* lines 54-57
RetagAll(dom, points, opts) ==
    IF points = <<>> THEN dom
    ELSE RetagAll(ReplaceAt(dom, Head(points), Retagged(NodeAt(dom, Head(points)), opts)),
                  Tail(points), opts)

\* lines 47-49
Unpadded(desc) ==
    IF desc.script = NoBlock THEN desc
    ELSE [desc EXCEPT !.script.content = StripPad(desc.script.content)]

\* a mistaken condition: every template is finalized
MarkedAlways(desc, opts) == desc.template # NoBlock

\* line 52
MarkedExtendable(desc, opts) ==
    /\ desc.template # NoBlock
    /\ Truthy(GetAttr(desc.template.attrs, opts.EXTENDABLE_ATTR))

\* a mistaken search: find in place of findAll, the first point only
FirstOpenPoint(finalDom, opts) ==
    LET all == findDomElementsByTagName(finalDom, opts.EXT_POINT_TAG)
    IN  IF all = <<>> THEN <<>> ELSE <<all[1]>>

\* line 54
OpenPoints(finalDom, opts) == findDomElementsByTagName(finalDom, opts.EXT_POINT_TAG)

\* lines 46-62: the source handed to resolve, given a descriptor
FinalSource(source, desc, opts) ==
    LET finalDescriptor == Unpadded(desc)
    IN  IF MarkedExtendable(finalDescriptor, opts)
            THEN LET finalDom == parseDOM(finalDescriptor.template.content)
                 IN  Generated(<<>>, RetagAll(finalDom, OpenPoints(finalDom, opts), opts),
                               descriptorToHTML(finalDescriptor, opts))
        ELSE source

(***************************************************************************)
(* The component files the loader is run on.  V is the vocabulary the      *)
(* files are written in (an options record), o names the file's place in   *)
(* the chain, so that every text says which file it came from.             *)
(***************************************************************************)
Text(what, name, o) == TextNode(<<what, name, o>>)

Point(V, name, children) ==
    Elem(V.EXT_POINT_TAG, <<Attr(V.EXT_POINT_NAME_ATTR, Str1(name))>>, children)

Fill(V, name, children) ==
    Elem(V.EXTENSION_TAG, <<Attr(V.EXT_POINT_REF_ATTR, Str1(name))>>, children)

Container(V, blocks) == Elem(V.EXTENSIONS_TAG, <<>>, blocks)

\* a reference relative to the current directory, and one through an alias
RelativeRef == <<"s", "/", "b">>

AliasedRef == <<"@", "/", "b">>

ContextDir == <<"/", "w">>

WebpackAliases == <<Alias(<<"@">>, <<"/", "a", "l">>)>>

JestAliases == <<Alias(<<"@">>, <<"/", "a", "l">>), Alias(SentinelKey, TrueValue)>>

AliasTables == {WebpackAliases, JestAliases}

FullSections(V, o) ==
    [script |-> Block("script", <<>>, <<TextTok(<<"script", "", o>>)>>),
     styles |-> <<Block("style", <<Attr("scoped", <<>>)>>, <<TextTok(<<"style", "", o>>)>>)>>,
     customBlocks |-> <<Block("docs", <<>>, <<TextTok(<<"docs", "", o>>)>>),
                        Block(V.EXTENSION_TAG, <<>>, <<TextTok(<<"custom", "", o>>)>>)>>]

NoSections == [script |-> NoBlock, styles |-> <<>>, customBlocks |-> <<>>]

Raw(templateAttrs, dom, sections) ==
    Source("raw", Block("template", templateAttrs, getOuterHTML(dom)),
           sections.script, sections.styles, sections.customBlocks, <<>>, FALSE)

Derived(V, ref, dom, sections) == Raw(<<Attr(V.EXTENDS_ATTR, ref)>>, dom, sections)

Base(V, extendable, dom, sections) ==
    Raw(IF extendable THEN <<Attr(V.EXTENDABLE_ATTR, <<>>)>> ELSE <<>>, dom, sections)

\* base templates: a point inside a div; a point with a point in its
\* default content, next to a second point of the same name; no point
OnePoint(V, o) ==
    <<Elem("div", <<>>, <<Point(V, "p", <<Text("default", "p", o)>>)>>)>>

NestedPoints(V, o) ==
    <<Point(V, "q", <<Text("default", "q", o), Point(V, "p", <<Text("inner", "p", o)>>)>>),
      Point(V, "p", <<Text("default", "p", o)>>)>>

NoPoint(V, o) == <<Elem("div", <<>>, <<Text("plain", "", o)>>)>>

BaseKinds == {"base-marked", "base-unmarked", "base-nested", "base-plain",
              "script-only", "malformed"}

DerivedKinds == {"no-container", "empty-container", "fill-p", "fill-p-twice",
                 "fill-p-with-point", "fill-r", "fill-p-q", "extends-valueless"}

Kinds == BaseKinds \cup DerivedKinds

Component(kind, V, o) ==
    CASE kind = "base-marked" -> Base(V, TRUE, OnePoint(V, o), FullSections(V, o))
      [] kind = "base-unmarked" -> Base(V, FALSE, OnePoint(V, o), NoSections)
      [] kind = "base-nested" -> Base(V, TRUE, NestedPoints(V, o), NoSections)
      [] kind = "base-plain" -> Base(V, TRUE, NoPoint(V, o), FullSections(V, o))
      [] kind = "script-only" ->
            Source("raw", NoBlock, FullSections(V, o).script, <<>>, <<>>, <<>>, FALSE)
      [] kind = "malformed" ->
            Source("raw", NoBlock, NoBlock, <<>>, <<>>, <<"<", o>>, TRUE)
      [] kind = "no-container" -> Derived(V, RelativeRef, <<>>, NoSections)
      [] kind = "empty-container" ->
            Derived(V, RelativeRef, <<Container(V, <<>>)>>, FullSections(V, o))
      [] kind = "fill-p" ->
            Derived(V, AliasedRef,
                    <<Text("space", "", o),
                      Container(V, <<Fill(V, "p", <<Text("content", "p", o)>>)>>)>>,
                    FullSections(V, o))
      [] kind = "fill-p-twice" ->
            Derived(V, RelativeRef,
                    <<Container(V, <<Fill(V, "p", <<Text("content", "p", o)>>),
                                     Fill(V, "p", <<Text("second", "p", o)>>)>>)>>,
                    NoSections)
      [] kind = "fill-p-with-point" ->
            Derived(V, RelativeRef,
                    <<Container(V, <<Fill(V, "p", <<Point(V, "r", <<Text("default", "r", o)>>)>>)>>)>>,
                    NoSections)
      [] kind = "fill-r" ->
            Derived(V, RelativeRef,
                    <<Container(V, <<Fill(V, "r", <<Text("content", "r", o)>>)>>)>>,
                    FullSections(V, o))
      [] kind = "fill-p-q" ->
            Derived(V, RelativeRef,
                    <<Container(V, <<Fill(V, "p", <<Text("content", "p", o)>>),
                                     Text("space", "", o),
                                     Fill(V, "q", <<Text("content", "q", o)>>)>>)>>,
                    NoSections)
      [] kind = "extends-valueless" -> Derived(V, <<>>, <<>>, NoSections)

(***************************************************************************)
(* State                                                                   *)
(***************************************************************************)
Tasks == {1, 2}

Job(t, level) == [t |-> t, level |-> level]

Input(source, context, aliases) ==
    [source |-> source, context |-> context, aliases |-> aliases]

NoCallback == [called |-> FALSE, err |-> NoError, source |-> UndefinedSource]

NoPath == <<"#none">>

\* the promise of a frame settled just now: its reaction (registered at
\* line 43 or line 111) is queued
Reaction(t, level, before, after) ==
    IF before.st = "pending" /\ after.st # "pending" THEN <<Job(t, level)>> ELSE <<>>

Thrown(outcome) == IF outcome.st = "rejected" THEN <<outcome.err>> ELSE <<>>

MainInit ==
    /\ options = defaultOptions
    /\ started = [t \in Tasks |-> FALSE]
    /\ cfg = [t \in Tasks |-> defaultOptions]
    /\ input = [t \in Tasks |-> Input(UndefinedSource, <<>>, <<>>)]
    /\ frames = [t \in Tasks |-> <<>>]
    /\ gm = [t \in Tasks |-> Pending]
    /\ cb = [t \in Tasks |-> NoCallback]
    /\ deps = [t \in Tasks |-> <<>>]
    /\ reads = [t \in Tasks |-> <<>>]
    /\ raised = [t \in Tasks |-> <<>>]
    /\ jobs = <<>>

AliasIdle ==
    /\ aRef = <<>>
    /\ aDir = <<>>
    /\ aAliases = <<>>
    /\ aOut = NoPath

Init == MainInit /\ AliasIdle

(***************************************************************************)
(* Actions                                                                 *)
(***************************************************************************)
\* lines 21-39 with the synchronous part of getMergedCode and of the first
\* resolveComponent call (lines 41-43, 71-103, 155-161).  A loader call is a
\* task of its own: it starts when no promise reaction is waiting.
Loader(t, kinds, optionSets, aliasTables) ==
    /\ ~started[t]
    /\ jobs = <<>>
    /\ \E given \in optionSets, kind \in kinds, aliases \in aliasTables :
         LET opts == MergeOptions(defaultOptions, given)
             source == Component(kind, opts, "0")
         IN  \E parse \in toDescriptor(source) :
               LET frame == StartResolve(source, ContextDir, aliases, parse, opts)
               IN  /\ options' = opts
                   /\ started' = [started EXCEPT ![t] = TRUE]
                   /\ cfg' = [cfg EXCEPT ![t] = opts]
                   /\ input' = [input EXCEPT ![t] = Input(source, ContextDir, aliases)]
                   /\ frames' = [frames EXCEPT ![t] = <<frame>>]
                   /\ reads' = [reads EXCEPT ![t] =
                                   IF frame.reading THEN <<frame.baseAbsPath>> ELSE <<>>]
                   /\ raised' = [raised EXCEPT ![t] = Thrown(frame.p)]
                   /\ jobs' = Reaction(t, 1, Pending, frame.p)
                   /\ UNCHANGED <<gm, cb, deps>>
    /\ UNCHANGED aliasVars

\* lines 105-111 and the synchronous part of the recursive call: the
\* readFile callback of the innermost frame.  The file is unreadable, or
\* holds a component written in the vocabulary the invocation was
\* configured with; the file system holds no cycle and no chain longer than
\* MaxChain.
ReadFileDone(t, kinds) ==
    /\ started[t]
    /\ jobs = <<>>
    /\ frames[t] # <<>>
    /\ frames[t][Len(frames[t])].reading
    /\ LET n == Len(frames[t])
           f == frames[t][n]
       IN  \E err \in BOOLEAN, kind \in kinds :
             LET contents == IF err THEN UndefinedSource
                             ELSE Component(kind, cfg[t], ToString(n))
                 p == IF err THEN Settle(f.p, Rejected(IOError(f.baseAbsPath))) ELSE f.p
             IN  \E parse \in toDescriptor(contents) :
                   LET child == StartResolve(contents, Dirname(f.baseAbsPath),
                                             input[t].aliases, parse, options)
                   IN  /\ err => kind = CHOOSE k \in kinds : TRUE
                       /\ child.reading =>
                            /\ n < MaxChain
                            /\ \A i \in 1..Len(reads[t]) : reads[t][i] # child.baseAbsPath
                       /\ frames' = [frames EXCEPT ![t] =
                                        Append([@ EXCEPT ![n].reading = FALSE, ![n].p = p],
                                               child)]
                       /\ reads' = [reads EXCEPT ![t] =
                                       IF child.reading THEN Append(@, child.baseAbsPath) ELSE @]
                       /\ raised' = [raised EXCEPT ![t] =
                                        @ \o (IF err THEN <<p.err>> ELSE <<>>) \o Thrown(child.p)]
                       /\ jobs' = Reaction(t, n, f.p, p) \o Reaction(t, n + 1, Pending, child.p)
    /\ UNCHANGED <<options, started, cfg, input, gm, cb, deps>>
    /\ UNCHANGED aliasVars

\* lines 111-153: the reaction to the promise of frame `level` (2 or
\* deeper), run in the frame above it
BaseSettled ==
    /\ jobs # <<>>
    /\ Head(jobs).level >= 2
    /\ LET t == Head(jobs).t
           level == Head(jobs).level
           frame == frames[t][level - 1]
           base == frames[t][level].p
       IN  \E parse \in toDescriptor(base.source) :
             LET outcome == IF base.st = "resolved"
                                THEN Merge(frame, base, parse, options)
                            ELSE Rejected(base.err)
                 p == Settle(frame.p, outcome)
             IN  /\ base.st = "rejected" => parse = CHOOSE x \in toDescriptor(base.source) : TRUE
                 /\ frames' = [frames EXCEPT ![t][level - 1].p = p]
                 /\ raised' = [raised EXCEPT ![t] =
                                  IF base.st = "resolved" THEN @ \o Thrown(outcome) ELSE @]
                 /\ jobs' = Tail(jobs) \o Reaction(t, level - 1, frame.p, p)
    /\ UNCHANGED <<options, started, cfg, input, gm, cb, deps, reads>>
    /\ UNCHANGED aliasVars

\* lines 43-67: the reaction of getMergedCode to the promise of the
\* outermost frame.  An exception inside the first callback of then() is
\* not handed to the second: neither resolve nor reject is called.
Finalize ==
    /\ jobs # <<>>
    /\ Head(jobs).level = 1
    /\ LET t == Head(jobs).t
           top == frames[t][1].p
       IN  \E parse \in toDescriptor(top.source) :
             /\ top.st = "rejected" => parse = CHOOSE x \in toDescriptor(top.source) : TRUE
             /\ LET outcome == IF top.st = "rejected" THEN Rejected(top.err)
                               ELSE IF parse.ok
                                   THEN Resolved(FinalSource(top.source, parse.desc, options),
                                                 top.ancestorsPaths)
                               ELSE Pending
                    p == Settle(gm[t], outcome)
                IN  /\ gm' = [gm EXCEPT ![t] = p]
                    /\ raised' = [raised EXCEPT ![t] =
                                     IF top.st = "resolved" /\ ~parse.ok
                                         THEN Append(@, ParseError) ELSE @]
                    /\ jobs' = Tail(jobs) \o Reaction(t, 0, gm[t], p)
    /\ UNCHANGED <<options, started, cfg, input, frames, cb, deps, reads>>
    /\ UNCHANGED aliasVars

\* lines 27-38: the reaction of the loader to the promise of getMergedCode
Callback ==
    /\ jobs # <<>>
    /\ Head(jobs).level = 0
    /\ LET t == Head(jobs).t
       IN  /\ deps' = [deps EXCEPT ![t] =
                          IF gm[t].st = "resolved" THEN gm[t].ancestorsPaths ELSE @]
           /\ cb' = [cb EXCEPT ![t] =
                        [called |-> TRUE, err |-> gm[t].err, source |-> gm[t].source]]
    /\ jobs' = Tail(jobs)
    /\ UNCHANGED <<options, started, cfg, input, frames, gm, reads, raised>>
    /\ UNCHANGED aliasVars

Next ==
    \/ Loader(1, Kinds, LoaderOptionSets, AliasTables)
    \/ ReadFileDone(1, Kinds)
    \/ BaseSettled
    \/ Finalize
    \/ Callback

Spec == Init /\ [][Next]_vars

(***************************************************************************)
(* Notions the properties are stated with                                  *)
(***************************************************************************)
\* nothing is left to run for invocation t: no read is outstanding and no
\* reaction is queued
Quiescent(t) ==
    /\ started[t]
    /\ \A i \in 1..Len(jobs) : jobs[i].t # t
    /\ \A k \in 1..Len(frames[t]) : ~frames[t][k].reading

InFlight(t) == started[t] /\ ~Quiescent(t)

\* the template of a source as a forest
DomOf(source) == parseDOM(source.template.content)

\* frame k of invocation t resolved by merging its base (frame k + 1)
MergedAt(t, k) ==
    /\ k \in 1..(Len(frames[t]) - 1)
    /\ frames[t][k].p.st = "resolved"

\* the indexes of the blocks that target the point
BlocksFor(blocks, extPoint, opts) ==
    {i \in 1..Len(blocks) :
        GetAttr(blocks[i].attribs, opts.EXT_POINT_REF_ATTR)
            = GetAttr(extPoint.attribs, opts.EXT_POINT_NAME_ATTR)}

\* the extension points of dom, as a set of paths
PointsOf(dom, opts) ==
    LET all == findDomElementsByTagName(dom, opts.EXT_POINT_TAG)
    IN  {all[i] : i \in 1..Len(all)}

\* the point at path keeps its place when blocks are merged into dom: no
\* point around it is filled
KeepsPlace(dom, path, blocks, opts) ==
    \A q \in PointsOf(dom, opts) :
        IsProperPrefix(q, path) => BlocksFor(blocks, NodeAt(dom, q), opts) = {}

\* children as they are displayed once every point among them is a template
Shown(children, opts) ==
    RetagAll(children, findDomElementsByTagName(children, opts.EXT_POINT_TAG), opts)

\* a filled point: a plain template element holding the given children
IsFilledWith(node, extPoint, children, opts) ==
    /\ node.type = "tag"
    /\ node.name = "template"
    /\ ~HasAttr(node.attribs, opts.EXT_POINT_NAME_ATTR)
    /\ node.attribs = DeleteAttr(extPoint.attribs, opts.EXT_POINT_NAME_ATTR)
    /\ node.children = children

\* the template of the source is written with the extendable marker
CarriesMarker(source, opts) == HasAttr(source.template.attrs, opts.EXTENDABLE_ATTR)

\* the template of the source is written with an extends reference
CarriesExtends(source, opts) == HasAttr(source.template.attrs, opts.EXTENDS_ATTR)

ParserFailed(t) == \E i \in 1..Len(raised[t]) : raised[t][i] = ParseError

(***************************************************************************)
(* C1  single-level merge                                                  *)
(***************************************************************************)
\* the merge of frame k satisfies the claim for the blocks chosen by Pick
\* (a set of block indexes for each point)
C1_At(t, k, onlyFirst) ==
    LET opts == cfg[t]
        baseDom == DomOf(frames[t][k + 1].p.source)
        blocks == Extensions(DomOf(frames[t][k].currentSource), opts)
        mergedDom == DomOf(frames[t][k].p.source)
    IN  \A path \in PointsOf(baseDom, opts) :
            LET extPoint == NodeAt(baseDom, path)
                all == BlocksFor(blocks, extPoint, opts)
                chosen == IF onlyFirst THEN {FirstIndex(all)} \ {0} ELSE all
            IN  (/\ HasAttr(extPoint.attribs, opts.EXT_POINT_NAME_ATTR)
                 /\ KeepsPlace(baseDom, path, blocks, opts))
                => \A b \in chosen :
                     /\ HasNodeAt(mergedDom, path)
                     /\ IsFilledWith(NodeAt(mergedDom, path), extPoint,
                                     blocks[b].children, opts)

\* C1 as claimed: wherever resolveComponent merged a base into a derived
\* component, every named extension point P of the base that a block of the
\* extensions container targets holds exactly that block's children, for
\* every such block, and is a plain template element without its name.
C1_SingleLevelMerge ==
    \A t \in Tasks : \A k \in 1..Len(frames[t]) :
        MergedAt(t, k) => C1_At(t, k, FALSE)

\* C1 amended: the same, for the first block (in document order) of the
\* extensions container that targets P.
C1_FirstBlockWins ==
    \A t \in Tasks : \A k \in 1..Len(frames[t]) :
        MergedAt(t, k) => C1_At(t, k, TRUE)

\* a base with point p was merged with a component that fills p, and the
\* merged template holds the block's content there
C1_Witness ==
    /\ MergedAt(1, 1)
    /\ \E path \in PointsOf(DomOf(frames[1][2].p.source), cfg[1]) :
         /\ NodeAt(DomOf(frames[1][2].p.source), path).children
                = <<Text("default", "p", "1")>>
         /\ NodeAt(DomOf(frames[1][1].p.source), path).name = "template"
         /\ NodeAt(DomOf(frames[1][1].p.source), path).children
                = <<Text("content", "p", "0")>>

(***************************************************************************)
(* C2  unfilled point fallback                                             *)
(***************************************************************************)
\* no extension block anywhere in the template targets the point
NoBlockFor(dom, extPoint, opts) ==
    LET all == findDomElementsByTagName(dom, opts.EXTENSION_TAG)
    IN  \A i \in 1..Len(all) :
            GetAttr(NodeAt(dom, all[i]).attribs, opts.EXT_POINT_REF_ATTR)
                # GetAttr(extPoint.attribs, opts.EXT_POINT_NAME_ATTR)

\* invocation t read a base component without extends for a derived
\* component, the parser accepted every text, and nothing is left to run
SingleLevelDone(t) ==
    /\ Quiescent(t)
    /\ Len(frames[t]) = 2
    /\ frames[t][2].currentSource.fmt = "raw"
    /\ frames[t][2].p.st = "resolved"
    /\ frames[t][2].currentSource.template # NoBlock
    /\ ~ParserFailed(t)

\* C2 as claimed: a derived component with no block for a named point P of
\* its base (other blocks, an empty container, or no container at all) is
\* resolved by getMergedCode, and the output shows the default content of P
\* at P's place.
C2_UnfilledPointFallback ==
    \A t \in Tasks :
        SingleLevelDone(t) =>
            LET opts == cfg[t]
                baseDom == DomOf(frames[t][2].currentSource)
                currentDom == DomOf(frames[t][1].currentSource)
            IN  \A path \in PointsOf(baseDom, opts) :
                    LET extPoint == NodeAt(baseDom, path)
                    IN  (/\ HasAttr(extPoint.attribs, opts.EXT_POINT_NAME_ATTR)
                         /\ NoBlockFor(currentDom, extPoint, opts)
                         /\ \A q \in PointsOf(baseDom, opts) :
                                IsProperPrefix(q, path)
                                    => NoBlockFor(currentDom, NodeAt(baseDom, q), opts))
                        => /\ gm[t].st = "resolved"
                           /\ HasNodeAt(DomOf(gm[t].source), path)
                           /\ IsFilledWith(NodeAt(DomOf(gm[t].source), path), extPoint,
                                           Shown(extPoint.children, opts), opts)

(***************************************************************************)
(* C3  N-level chaining                                                    *)
(***************************************************************************)
RECURSIVE Reverse(_)
Reverse(seq) == IF seq = <<>> THEN <<>> ELSE Append(Reverse(Tail(seq)), Head(seq))

NoDuplicates(seq) == \A i, j \in 1..Len(seq) : seq[i] = seq[j] => i = j

\* the leaf's content for the points the root defines, the middle component
\* leaves open and the leaf fills
C3_LeafFillsRootPoint(t) ==
    LET opts == cfg[t]
        rootDom == DomOf(frames[t][3].currentSource)
        midBlocks == Extensions(DomOf(frames[t][2].currentSource), opts)
        midDom == DomOf(frames[t][2].p.source)
        leafBlocks == Extensions(DomOf(frames[t][1].currentSource), opts)
        finalDom == DomOf(gm[t].source)
    IN  \A path \in PointsOf(rootDom, opts) :
            LET extPoint == NodeAt(rootDom, path)
                b == FirstIndex(BlocksFor(leafBlocks, extPoint, opts))
            IN  (/\ HasAttr(extPoint.attribs, opts.EXT_POINT_NAME_ATTR)
                 /\ BlocksFor(midBlocks, extPoint, opts) = {}
                 /\ KeepsPlace(rootDom, path, midBlocks, opts)
                 /\ KeepsPlace(midDom, path, leafBlocks, opts)
                 /\ b # 0)
                => /\ HasNodeAt(finalDom, path)
                   /\ IsFilledWith(NodeAt(finalDom, path), extPoint,
                                   Shown(leafBlocks[b].children, opts), opts)

\* C3: a frame holds its base's path only once the base's promise has
\* resolved, and then its list is the base's list followed by the base's
\* path; the list getMergedCode resolves with is the paths read, farthest
\* ancestor first, each once, and it is what addDependency receives; in a
\* three-level chain the output holds the leaf's content at every point the
\* root defines, the middle component leaves open and the leaf fills.
C3_ChainOrder ==
    \A t \in Tasks :
        /\ \A k \in 1..Len(frames[t]) :
              frames[t][k].p.ancestorsPaths # <<>> =>
                  /\ MergedAt(t, k)
                  /\ frames[t][k + 1].p.st = "resolved"
                  /\ frames[t][k].p.ancestorsPaths
                         = Append(frames[t][k + 1].p.ancestorsPaths, frames[t][k].baseAbsPath)
        /\ gm[t].st = "resolved" =>
              /\ gm[t].ancestorsPaths = Reverse(reads[t])
              /\ gm[t].ancestorsPaths
                     = [i \in 1..(Len(frames[t]) - 1) |->
                           frames[t][Len(frames[t]) - i].baseAbsPath]
              /\ NoDuplicates(gm[t].ancestorsPaths)
              /\ Len(frames[t]) = 3 => C3_LeafFillsRootPoint(t)
        /\ (cb[t].called /\ gm[t].st = "resolved") => deps[t] = gm[t].ancestorsPaths

\* root defines p, the middle component has an empty container, the leaf
\* fills p: the callback got the leaf's content and the two paths, root first
C3_Witness ==
    /\ cb[1].called
    /\ gm[1].st = "resolved"
    /\ Len(frames[1]) = 3
    /\ deps[1] = <<frames[1][2].baseAbsPath, frames[1][1].baseAbsPath>>
    /\ frames[1][2].baseAbsPath # frames[1][1].baseAbsPath
    /\ Extensions(DomOf(frames[1][2].currentSource), cfg[1]) = <<>>
    /\ \E path \in PointsOf(DomOf(frames[1][3].currentSource), cfg[1]) :
         /\ NodeAt(DomOf(frames[1][3].currentSource), path).children
                = <<Text("default", "p", "2")>>
         /\ NodeAt(DomOf(gm[1].source), path).children = <<Text("content", "p", "0")>>

(***************************************************************************)
(* C4  non-template isolation                                              *)
(***************************************************************************)
Keys(attrs) == [i \in 1..Len(attrs) |-> attrs[i].key]

\* the same section: its type, its attribute names and its content
SameSection(x, y) ==
    /\ x.type = y.type
    /\ Keys(x.attrs) = Keys(y.attrs)
    /\ x.content = y.content

\* the files whose text shows in a section's content
TextOwners(content) ==
    {content[j].data[3] : j \in {j \in 1..Len(content) : Len(content[j].data) = 3}}

\* the files whose text shows in the script, style and custom sections
OwnersOf(source) ==
    LET blocks == <<source.script>> \o source.styles \o source.customBlocks
    IN  UNION {TextOwners(blocks[i].content) : i \in 1..Len(blocks)}

IsPointToken(tok, opts) == tok.k \in {"open", "close"} /\ tok.name = opts.EXT_POINT_TAG

HasPointTag(source, opts) ==
    \E i \in 1..Len(source.template.content) :
        IsPointToken(source.template.content[i], opts)

\* C5 as claimed: whatever getMergedCode resolves with holds no element
\* with the extension-point tag.
C5_VocabularyErased ==
    \A t \in Tasks :
        gm[t].st = "resolved" => ~HasPointTag(gm[t].source, cfg[t])

\* the component handed to the loader extends a base or carries the
\* extendable marker
ExtendsOrMarked(t) ==
    /\ ~input[t].source.malformed
    /\ \/ CarriesExtends(input[t].source, cfg[t])
       \/ CarriesMarker(input[t].source, cfg[t])

\* C5 amended: when the component handed to the loader extends a base or
\* carries the extendable marker, the template getMergedCode resolves with
\* holds no element with the extension-point tag: each one in the template
\* resolveComponent returned is a template element without the point-name
\* attribute, and nothing else changed.
C5_ErasedWhenMarked ==
    \A t \in Tasks :
        (gm[t].st = "resolved" /\ ExtendsOrMarked(t)) =>
            LET before == frames[t][1].p.source.template.content
                after == gm[t].source.template.content
            IN  /\ ~HasPointTag(gm[t].source, cfg[t])
                /\ Len(after) = Len(before)
                /\ \A i \in 1..Len(before) :
                      IF IsPointToken(before[i], cfg[t])
                          THEN /\ after[i].k = before[i].k
                               /\ after[i].name = "template"
                               /\ after[i].attribs
                                      = DeleteAttr(before[i].attribs, cfg[t].EXT_POINT_NAME_ATTR)
                      ELSE after[i] = before[i]

\* a merged template that still held several extension points (one inside
\* another) was finalized
C5_Witness ==
    /\ gm[1].st = "resolved"
    /\ Len(frames[1]) >= 2
    /\ Len(findDomElementsByTagName(DomOf(frames[1][1].p.source), cfg[1].EXT_POINT_TAG)) >= 3
    /\ ~HasPointTag(gm[1].source, cfg[1])

(***************************************************************************)
(* C6  base case identity                                                  *)
(***************************************************************************)
\* the component handed to the loader has no template or no extends
BaseCaseInput(t) ==
    /\ started[t]
    /\ ~input[t].source.malformed
    /\ ~CarriesExtends(input[t].source, cfg[t])

\* what resolveComponent does with it
C6_ResolveComponentIdentity(t) ==
    /\ Len(frames[t]) = 1
    /\ frames[t][1].p = Resolved(input[t].source, <<>>)
    /\ reads[t] = <<>>

\* C6 as claimed: a source without template or without extends is resolved
\* unchanged, with no ancestor and no file read, by resolveComponent and by
\* getMergedCode.
C6_BaseCaseIdentity ==
    \A t \in Tasks :
        BaseCaseInput(t) =>
            /\ C6_ResolveComponentIdentity(t)
            /\ gm[t].st # "rejected"
            /\ gm[t].st = "resolved" => gm[t] = Resolved(input[t].source, <<>>)
            /\ Quiescent(t) => gm[t].st = "resolved"

\* C6 amended: resolveComponent resolves such a source unchanged, with no
\* ancestor and no file read; getMergedCode resolves it unchanged unless its
\* template carries the extendable marker, and then resolves a regenerated
\* text: the template without the marker and without extension-point tags,
\* the same script and styles, no ancestor.
C6_IdentityUnlessMarked ==
    \A t \in Tasks :
        BaseCaseInput(t) =>
            /\ C6_ResolveComponentIdentity(t)
            /\ gm[t].st # "rejected"
            /\ Quiescent(t) => gm[t].st = "resolved"
            /\ gm[t].st = "resolved" =>
                  /\ gm[t].ancestorsPaths = <<>>
                  /\ IF CarriesMarker(input[t].source, cfg[t])
                         THEN /\ gm[t].source.fmt = "gen"
                              /\ gm[t].source.template.attrs = <<>>
                              /\ ~HasPointTag(gm[t].source, cfg[t])
                              /\ SameSection(gm[t].source.script, input[t].source.script)
                     ELSE gm[t].source = input[t].source

\* a component without extends and without the marker, which holds an
\* extension point, came back unchanged
C6_Witness ==
    /\ BaseCaseInput(1)
    /\ cb[1].called
    /\ HasPointTag(input[1].source, cfg[1])
    /\ cb[1].source = input[1].source

(***************************************************************************)
(* C7  a read failure aborts the whole chain                               *)
(***************************************************************************)
ReadErrors(t) == {i \in 1..Len(raised[t]) : raised[t][i].kind = "IOError"}

C8_AllErrorsPropagate ==
    \A t \in Tasks :
        Quiescent(t) =>
            /\ gm[t].st # "pending"
            /\ cb[t].called
            /\ raised[t] # <<>> => gm[t].st = "rejected"
            /\ raised[t] = <<>> => gm[t].st = "resolved"

(***************************************************************************)
(* C9  the configuration does not race                                     *)
(***************************************************************************)
RaceKinds == {"fill-p", "empty-container"}

RaceFiles == {"base-marked"}

NextRace ==
    \/ \E t \in Tasks : Loader(t, RaceKinds, LoaderOptionSets, {WebpackAliases})
    \/ \E t \in Tasks : ReadFileDone(t, RaceFiles)
    \/ BaseSettled
    \/ Finalize
    \/ Callback

\* two loader invocations, the second of which may start while the first
\* waits for its file
SpecRace == Init /\ [][NextRace]_vars

\* C9 as claimed: while a resolution is in flight, the options are the ones
\* it was started with.
C9_ConfigurationStable ==
    \A t \in Tasks : InFlight(t) => options = cfg[t]

(***************************************************************************)
(* C10  alias resolution                                                   *)
(***************************************************************************)
RefAlphabet == {"@", "a", "b", "/", "."}

\* the extends references: every non-empty string up to MaxRefLen
References == UNION {[1..n -> RefAlphabet] : n \in 1..MaxRefLen}

CheckedDirs == {<<"/", "w">>, <<"/", "w", "/", "s">>}

PlainTables ==
    {<<>>,
     <<Alias(<<"@">>, <<"/", "a", "l">>)>>,
     <<Alias(<<"a">>, <<"/", "x">>), Alias(<<"@">>, <<"/", "a", "l">>)>>,
     <<Alias(<<"a", "b">>, <<"/", "x">>), Alias(<<"b">>, <<"y">>)>>}

CheckedTables ==
    PlainTables \cup {Append(table, Alias(SentinelKey, TrueValue)) : table \in PlainTables}

AliasInit ==
    /\ MainInit
    /\ aRef \in References
    /\ aDir \in CheckedDirs
    /\ aAliases \in CheckedTables
    /\ aOut = NoPath

\* lines 79-103 on the drawn reference
ResolveAlias ==
    /\ aOut = NoPath
    /\ aOut' = ResolveBasePath(aRef, aDir, aAliases)
    /\ UNCHANGED <<aRef, aDir, aAliases>>
    /\ UNCHANGED mainVars

SpecAlias == AliasInit /\ [][ResolveAlias]_vars

\* the entries whose key is the first segment of the reference
FirstSegmentEntries(ref, aliases) ==
    {i \in 1..Len(aliases) :
        aliases[i].key # SentinelKey /\ aliases[i].key = SplitRef(ref)[1]}

\* alias_target/remaining_segments
TargetWithRest(ref, target) == PathJoin(target, JoinWith(Tail(SplitRef(ref)), Slash))

\* the rule of the first-segment mode
FirstSegmentRule(ref, dir, aliases, out) ==
    IF FirstSegmentEntries(ref, aliases) # {}
        THEN \A i \in FirstSegmentEntries(ref, aliases) :
                 out = TargetWithRest(ref, aliases[i].target)
    ELSE out = PathJoin(dir, ref)

\* C10 as claimed: in both modes, a reference whose first segment is an
\* alias key resolves to the alias target joined with the remaining
\* segments, and any other reference to the reference joined onto the
\* current directory.
C10_AliasResolution ==
    aOut # NoPath => FirstSegmentRule(aRef, aDir, aAliases, aOut)

\* key occurs in ref at index j and nowhere before
FirstOccurrence(ref, key, j) ==
    /\ j + Len(key) - 1 <= Len(ref)
    /\ SubSeq(ref, j, j + Len(key) - 1) = key
    /\ \A i \in 1..(j - 1) : SubSeq(ref, i, i + Len(key) - 1) # key

Occurs(ref, key) == \E j \in 1..Len(ref) : FirstOccurrence(ref, key, j)

\* C10 amended: without the sentinel key the claim holds as stated.  With
\* it, the first key of the table (in key order) that occurs anywhere in the
\* reference decides: the resolved path is the reference with the first
\* occurrence of that key replaced by its target, neither joined nor
\* normalized; only a reference in which no key occurs is joined onto the
\* current directory.
C10_AliasResolutionByMode ==
    aOut # NoPath =>
        IF ~FromJest(aAliases) THEN FirstSegmentRule(aRef, aDir, aAliases, aOut)
        ELSE LET hits == {i \in 1..Len(aAliases) : Occurs(aRef, aAliases[i].key)}
             IN  IF hits = {} THEN aOut = PathJoin(aDir, aRef)
                 ELSE LET e == aAliases[FirstIndex(hits)]
                      IN  \E j \in 1..Len(aRef) :
                              /\ FirstOccurrence(aRef, e.key, j)
                              /\ aOut = SubSeq(aRef, 1, j - 1) \o e.target
                                           \o SubSeq(aRef, j + Len(e.key), Len(aRef))

\* "@/b" resolved through the alias "@" in the first-segment mode, with a
\* second segment that is an alias key too
C10_Witness ==
    /\ aOut = <<"/", "a", "l", "/", "a">>
    /\ aRef = <<"@", "/", "a">>
    /\ ~FromJest(aAliases)
    /\ Len(aAliases) = 2

====
